---------------------------- MODULE Spec2Model ----------------------------
(***************************************************************************)
(* A model of the resume parsers of smart-job-match-ai:                    *)
(*   src/parsers/utils.py          normaliser, segmenter, field extractors *)
(*                                 and section post-processors             *)
(*   src/parsers/resume_parser.py  parse_resume and its extractors         *)
(*                                                                         *)
(* A Python str is a sequence of characters.  A character is a one-letter  *)
(* TLA+ string; the five non-ASCII characters the sources name are the     *)
(* tokens LDQUO, RDQUO, LSQUO, RSQUO and BULLET.  Regular expressions are  *)
(* syntax trees evaluated by a backtracking matcher that tries the         *)
(* alternatives in the order Python's re module tries them.                *)
(***************************************************************************)
EXTENDS Integers, Sequences, FiniteSets, TLC

(***************************************************************************)
(* Characters and strings                                                  *)
(***************************************************************************)
LDQUO  == "LDQUO"     \* U+201C
RDQUO  == "RDQUO"     \* U+201D
LSQUO  == "LSQUO"     \* U+2018
RSQUO  == "RSQUO"     \* U+2019
BULLET == "BULLET"    \* U+2022

\* The characters of an ASCII string literal, as a sequence.
S(str) == SubSeq([i \in 1..Len(str) |-> SubSeq(str, i, i)], 1, Len(str))

UPPER == S("ABCDEFGHIJKLMNOPQRSTUVWXYZ")
LOWER == S("abcdefghijklmnopqrstuvwxyz")
DIGIT == {"0", "1", "2", "3", "4", "5", "6", "7", "8", "9"}
ALPHA == {UPPER[i] : i \in 1..Len(UPPER)} \cup {LOWER[i] : i \in 1..Len(LOWER)}
\* \w
WORD  == ALPHA \cup DIGIT \cup {"_"}
\* \s and the characters str.strip() removes, among the characters modelled
SPACE == {" ", "\t", "\n", "\r"}

lower_ch(c) ==
    IF \E i \in 1..Len(UPPER) : UPPER[i] = c
    THEN LOWER[CHOOSE i \in 1..Len(UPPER) : UPPER[i] = c]
    ELSE c

\* str.lower()
lower(s) == SubSeq([i \in 1..Len(s) |-> lower_ch(s[i])], 1, Len(s))

\* s[i:] with i counted from 0
From(s, i) == SubSeq(s, i + 1, Len(s))

\* s[i:i+len(p)] == p, with i counted from 0
occurs_at(s, p, i) ==
    i >= 0 /\ i + Len(p) <= Len(s) /\ \A j \in 1..Len(p) : s[i + j] = p[j]

\* str.startswith(p)
startswith(s, p) == occurs_at(s, p, 0)

\* str.endswith(p)
endswith(s, p) == occurs_at(s, p, Len(s) - Len(p))

\* p in s
contains(s, p) == \E i \in 0..(Len(s) - Len(p)) : occurs_at(s, p, i)

\* str.lstrip()
lstrip(s) ==
    IF \A i \in 1..Len(s) : s[i] \in SPACE
    THEN <<>>
    ELSE From(s, (CHOOSE i \in 1..Len(s) :
                     s[i] \notin SPACE /\ \A j \in 1..(i - 1) : s[j] \in SPACE) - 1)

\* str.rstrip()
rstrip(s) ==
    IF \A i \in 1..Len(s) : s[i] \in SPACE
    THEN <<>>
    ELSE SubSeq(s, 1, CHOOSE i \in 1..Len(s) :
                     s[i] \notin SPACE /\ \A j \in (i + 1)..Len(s) : s[j] \in SPACE)

\* str.strip()
strip(s) == rstrip(lstrip(s))

RECURSIVE split(_, _)
\* str.split(sep) for a one-character separator: always at least one piece
split(s, sep) ==
    IF \A i \in 1..Len(s) : s[i] # sep
    THEN <<s>>
    ELSE LET k == CHOOSE i \in 1..Len(s) :
                      s[i] = sep /\ \A j \in 1..(i - 1) : s[j] # sep
         IN  <<SubSeq(s, 1, k - 1)>> \o split(From(s, k), sep)

RECURSIVE join(_, _)
\* sep.join(parts)
join(parts, sep) ==
    IF parts = <<>> THEN <<>>
    ELSE IF Len(parts) = 1 THEN parts[1]
    ELSE parts[1] \o sep \o join(Tail(parts), sep)

(***************************************************************************)
(* Regular expressions.  A position is the number of characters before it. *)
(* Ends(r, s, i) lists, in the order the backtracking matcher tries them,  *)
(* the positions where a match of r that starts at i can end.              *)
(***************************************************************************)
In(cs)          == [t |-> "in", cs |-> cs]
NotIn(cs)       == [t |-> "notin", cs |-> cs]
Cat(rs)         == [t |-> "cat", rs |-> rs]
Alt(rs)         == [t |-> "alt", rs |-> rs]
\* r{lo,hi}, greedy
Rep(r, lo, hi)  == [t |-> "rep", r |-> r, lo |-> lo, hi |-> hi, inf |-> FALSE, lazy |-> FALSE]
\* r{lo,}, greedy
AtLeast(r, lo)  == [t |-> "rep", r |-> r, lo |-> lo, hi |-> lo, inf |-> TRUE, lazy |-> FALSE]
\* r{lo,}?, lazy
LazyLeast(r, lo) == [t |-> "rep", r |-> r, lo |-> lo, hi |-> lo, inf |-> TRUE, lazy |-> TRUE]
Opt(r)          == Rep(r, 0, 1)
Bol             == [t |-> "bol"]     \* ^
Eol             == [t |-> "eol"]     \* $
WordB           == [t |-> "wordb"]   \* \b
\* a literal string
Lit(str)        == Cat(SubSeq([i \in 1..Len(str) |-> In({SubSeq(str, i, i)})], 1, Len(str)))
\* a literal string under re.IGNORECASE
LitI(str)       ==
    Cat(SubSeq([i \in 1..Len(str) |->
                  In({c \in ALPHA \cup {SubSeq(str, i, i)} :
                        lower_ch(c) = lower_ch(SubSeq(str, i, i))})], 1, Len(str)))

IsWordAt(s, k) == k >= 1 /\ k <= Len(s) /\ s[k] \in WORD

RECURSIVE Ends(_, _, _)
RECURSIVE EndsAll(_, _, _)
RECURSIVE CatEnds(_, _, _, _)
RECURSIVE AltEnds(_, _, _, _)
RECURSIVE RepEnds(_, _, _, _)

\* the ends of r from each of the starts, in order
EndsAll(r, s, starts) ==
    IF starts = <<>> THEN <<>>
    ELSE Ends(r, s, Head(starts)) \o EndsAll(r, s, Tail(starts))

RECURSIVE CatAll(_, _, _, _)
CatAll(rs, k, s, starts) ==
    IF starts = <<>> THEN <<>>
    ELSE CatEnds(rs, k, s, Head(starts)) \o CatAll(rs, k, s, Tail(starts))

CatEnds(rs, k, s, i) ==
    IF k > Len(rs) THEN <<i>>
    ELSE CatAll(rs, k + 1, s, Ends(rs[k], s, i))

AltEnds(rs, k, s, i) ==
    IF k > Len(rs) THEN <<>>
    ELSE Ends(rs[k], s, i) \o AltEnds(rs, k + 1, s, i)

RECURSIVE RepAll(_, _, _, _)
RepAll(r, n, s, starts) ==
    IF starts = <<>> THEN <<>>
    ELSE RepEnds(r, n, s, Head(starts)) \o RepAll(r, n, s, Tail(starts))

\* n repetitions are done and the match stands at i
RepEnds(r, n, s, i) ==
    LET more == IF r.inf \/ n < r.hi
                THEN RepAll(r, n + 1, s, SelectSeq(Ends(r.r, s, i), LAMBDA e : e > i))
                ELSE <<>>
        stop == IF n >= r.lo THEN <<i>> ELSE <<>>
    IN  IF r.lazy THEN stop \o more ELSE more \o stop

Ends(r, s, i) ==
    CASE r.t = "in"    -> IF i < Len(s) /\ s[i + 1] \in r.cs THEN <<i + 1>> ELSE <<>>
      [] r.t = "notin" -> IF i < Len(s) /\ s[i + 1] \notin r.cs THEN <<i + 1>> ELSE <<>>
      [] r.t = "cat"   -> CatEnds(r.rs, 1, s, i)
      [] r.t = "alt"   -> AltEnds(r.rs, 1, s, i)
      [] r.t = "rep"   -> RepEnds(r, 0, s, i)
      [] r.t = "bol"   -> IF i = 0 THEN <<i>> ELSE <<>>
      [] r.t = "eol"   -> IF i = Len(s) \/ (i = Len(s) - 1 /\ s[Len(s)] = "\n")
                          THEN <<i>> ELSE <<>>
      [] r.t = "wordb" -> IF IsWordAt(s, i) # IsWordAt(s, i + 1) THEN <<i>> ELSE <<>>

NoMatch == [start |-> -1, end |-> -1]

RECURSIVE search_from(_, _, _)
\* the first match of r in s at or after position pos: re.search from pos
search_from(r, s, pos) ==
    IF pos > Len(s) THEN NoMatch
    ELSE LET ends == Ends(r, s, pos)
         IN  IF ends # <<>> THEN [start |-> pos, end |-> Head(ends)]
             ELSE search_from(r, s, pos + 1)

\* Python's None where a str may stand: its one element is no character, so no
\* str equals it, the empty str included
None == <<"None">>

\* m.group(0) if m else None
group0(s, m) == IF m = NoMatch THEN None ELSE SubSeq(s, m.start + 1, m.end)

\* m = re.search(r, s), then m.group(0) if m else None
re_search(r, s) == group0(s, search_from(r, s, 0))

\* re.match(r, s) is not None
re_match(r, s) == Ends(r, s, 0) # <<>>

RECURSIVE sub_from(_, _, _, _)
\* re.sub(r, repl, s), for patterns that match no empty string
sub_from(r, repl, s, pos) ==
    LET m == search_from(r, s, pos)
    IN  IF m = NoMatch \/ m.end = m.start THEN From(s, pos)
        ELSE SubSeq(s, pos + 1, m.start) \o repl \o sub_from(r, repl, s, m.end)

re_sub(r, repl, s) == sub_from(r, repl, s, 0)

RECURSIVE split_from(_, _, _)
\* re.split(r, s), for patterns that match no empty string
split_from(r, s, pos) ==
    LET m == search_from(r, s, pos)
    IN  IF m = NoMatch \/ m.end = m.start THEN <<From(s, pos)>>
        ELSE <<SubSeq(s, pos + 1, m.start)>> \o split_from(r, s, m.end)

re_split(r, s) == split_from(r, s, 0)

(***************************************************************************)
(* src/parsers/utils.py                                                    *)
(***************************************************************************)
\* The sections in the order the dict literal lists them, which is the order
\* .items() iterates.
SECTION_HEADERS == <<
    [sec |-> "summary",      keys |-> <<S("summary")>>],
    [sec |-> "skills",       keys |-> <<S("skills"), S("technical skills"),
                                        S("competencies"), S("expertise")>>],
    [sec |-> "experience",   keys |-> <<S("experience"), S("work history"),
                                        S("professional background"),
                                        S("career highlights")>>],
    [sec |-> "projects",     keys |-> <<S("projects"), S("portfolio"),
                                        S("technical projects")>>],
    [sec |-> "publications", keys |-> <<S("publications"), S("papers"),
                                        S("articles"), S("research")>>],
    [sec |-> "education",    keys |-> <<S("education"), S("academic background"),
                                        S("degrees")>>] >>

SectionNames == {SECTION_HEADERS[k].sec : k \in 1..Len(SECTION_HEADERS)}

\* clean_text with the line ends rewritten by re.sub(..., count=1)
clean_text_first_line_end_only(text) ==
    LET m  == search_from(Alt(<<Lit("\r\n"), In({"\r"})>>), text, 0)
        t1 == IF m = NoMatch THEN text
              ELSE SubSeq(text, 1, m.start) \o S("\n") \o From(text, m.end)
        t2 == re_sub(In({LDQUO, RDQUO}), S("\""), t1)
        t3 == re_sub(In({LSQUO, RSQUO}), S("'"), t2)
    IN  strip(t3)

clean_text(text) ==
    LET t1 == re_sub(Alt(<<Lit("\r\n"), In({"\r"})>>), S("\n"), text)
        t2 == re_sub(In({LDQUO, RDQUO}), S("\""), t1)
        t3 == re_sub(In({LSQUO, RSQUO}), S("'"), t2)
    IN  strip(t3)

\* the loop of extract_name over the lines from the k-th on
RECURSIVE extract_name_from(_, _)
extract_name_from(lines, k) ==
    IF k > Len(lines) THEN None
    ELSE LET line == strip(lines[k])
             low  == lower(line)
         IN  IF line = <<>> THEN extract_name_from(lines, k + 1)
             ELSE IF contains(low, S("email")) \/ contains(low, S("phone"))
                     \/ contains(low, S("location"))
                  THEN extract_name_from(lines, k + 1)
                  ELSE line

\* extract_name ending in return '' where the source returns None
extract_name_or_empty(text) ==
    LET found == extract_name_from(split(text, "\n"), 1)
    IN  IF found = None THEN <<>> ELSE found

extract_name(text) == extract_name_from(split(text, "\n"), 1)

EmailChars == In(WORD \cup {".", "-"})

\* [\w\.-]+@[\w\.-]+\.\w+
EmailRe ==
    Cat(<<AtLeast(EmailChars, 1), In({"@"}), AtLeast(EmailChars, 1),
          In({"."}), AtLeast(In(WORD), 1)>>)

extract_email(text) == re_search(EmailRe, text)

PhoneSep == Opt(In({"-", "."} \cup SPACE))

\* \+?\d{1,3}[-.\s]?\(?\d{2,4}\)?[-.\s]?\d{3,5}[-.\s]?\d{3,5}
PhoneRe ==
    Cat(<<Opt(In({"+"})), Rep(In(DIGIT), 1, 3), PhoneSep,
          Opt(In({"("})), Rep(In(DIGIT), 2, 4), Opt(In({")"})), PhoneSep,
          Rep(In(DIGIT), 3, 5), PhoneSep, Rep(In(DIGIT), 3, 5)>>)

extract_phone(text) == re_search(PhoneRe, text)

\* any(k in low for k in keys)
any_key_in(keys, low) == \E j \in 1..Len(keys) : contains(low, keys[j])

\* Python's None for the segmenter's cursor, which otherwise names a section
NoSection == "None"

RECURSIVE header_from(_, _)
\* the for ... break ... else over SECTION_HEADERS.items(), from the k-th
\* item on: the first section with a keyword in low, or NoSection when the
\* loop ends without break
header_from(low, k) ==
    IF k > Len(SECTION_HEADERS) THEN NoSection
    ELSE IF any_key_in(SECTION_HEADERS[k].keys, low) THEN SECTION_HEADERS[k].sec
    ELSE header_from(low, k + 1)

\* the header loop without its break: the last section with a keyword in low
header_of_without_break(low) ==
    IF \A k \in 1..Len(SECTION_HEADERS) : ~any_key_in(SECTION_HEADERS[k].keys, low)
    THEN NoSection
    ELSE SECTION_HEADERS[CHOOSE k \in 1..Len(SECTION_HEADERS) :
             /\ any_key_in(SECTION_HEADERS[k].keys, low)
             /\ \A j \in (k + 1)..Len(SECTION_HEADERS) :
                    ~any_key_in(SECTION_HEADERS[j].keys, low)].sec

header_of(low) == header_from(low, 1)

\* the loop body without the for ... else: a header line is also appended to
\* the section it opens
segment_line_keeps_header(st, line) ==
    LET hit == header_of(lower(line))
        cur == IF hit # NoSection THEN hit ELSE st.current
    IN  IF cur # NoSection /\ strip(line) # <<>>
        THEN [current |-> cur, sections |-> [st.sections EXCEPT ![cur] = Append(@, line)]]
        ELSE [st EXCEPT !.current = cur]

\* one pass of the loop body of extract_sections_by_headings over line, from
\* the cursor and sections in st
segment_line(st, line) ==
    LET hit == header_of(lower(line))
    IN  IF hit # NoSection
        THEN [st EXCEPT !.current = hit]
        ELSE IF st.current # NoSection /\ strip(line) # <<>>
             THEN [st EXCEPT !.sections[st.current] = Append(@, line)]
             ELSE st

BulletChars == {"-", "*", BULLET}

\* ^[\-\*\u2022]\s*
BulletRe == Cat(<<Bol, In(BulletChars), AtLeast(In(SPACE), 0)>>)

strip_bullet(line) == strip(re_sub(BulletRe, <<>>, line))

\* ln.lstrip().startswith(('-', '*', BULLET))
is_bullet(ln) == \E b \in BulletChars : startswith(lstrip(ln), <<b>>)

parse_education(lines) ==
    SubSeq([k \in 1..Len(lines) |-> strip_bullet(lines[k])], 1, Len(lines))

\* ^\w+:\s*
LabelRe == Cat(<<Bol, AtLeast(In(WORD), 1), In({":"}), AtLeast(In(SPACE), 0)>>)

\* ,|/|\band\b
SkillSepRe == Alt(<<In({","}), In({"/"}), Cat(<<WordB, Lit("and"), WordB>>)>>)

RECURSIVE add_parts_without_dedupe(_, _, _)
\* the inner loop without "and p not in items"
add_parts_without_dedupe(items, parts, k) ==
    IF k > Len(parts) THEN items
    ELSE LET p == strip(parts[k])
         IN  IF p # <<>>
             THEN add_parts_without_dedupe(Append(items, p), parts, k + 1)
             ELSE add_parts_without_dedupe(items, parts, k + 1)

\* the inner loop of parse_skills over the parts from the k-th on
RECURSIVE add_parts(_, _, _)
add_parts(items, parts, k) ==
    IF k > Len(parts) THEN items
    ELSE LET p == strip(parts[k])
         IN  IF p # <<>> /\ ~(\E j \in 1..Len(items) : items[j] = p)
             THEN add_parts(Append(items, p), parts, k + 1)
             ELSE add_parts(items, parts, k + 1)

\* the parts of one skills line
skill_parts(line) == re_split(SkillSepRe, re_sub(LabelRe, <<>>, strip_bullet(line)))

RECURSIVE parse_skills_from(_, _, _)
parse_skills_from(items, lines, k) ==
    IF k > Len(lines) THEN items
    ELSE parse_skills_from(add_parts(items, skill_parts(lines[k]), 1), lines, k + 1)

parse_skills(lines) == parse_skills_from(<<>>, lines, 1)

\* one pass of the loop body of parse_experience; current is <<>> for None and
\* <<entry>> for a dict, which is never falsy as it has two keys
experience_line(st, ln) ==
    IF ~is_bullet(ln)
    THEN [experiences |-> IF st.current # <<>>
                          THEN st.experiences \o st.current
                          ELSE st.experiences,
          current     |-> <<[title |-> strip(ln), details |-> <<>>]>>]
    ELSE IF st.current # <<>>
         THEN [st EXCEPT !.current[1].details = Append(@, strip_bullet(ln))]
         ELSE st

RECURSIVE parse_experience_from(_, _, _)
\* the loop of parse_experience over the lines from the k-th on
parse_experience_from(st, lines, k) ==
    IF k > Len(lines) THEN st
    ELSE parse_experience_from(experience_line(st, lines[k]), lines, k + 1)

\* parse_experience without the "if current: experiences.append(current)"
\* that follows the loop
parse_experience_without_flush(lines) ==
    parse_experience_from([experiences |-> <<>>, current |-> <<>>], lines, 1).experiences

parse_experience(lines) ==
    LET st == parse_experience_from([experiences |-> <<>>, current |-> <<>>], lines, 1)
    IN  IF st.current # <<>> THEN st.experiences \o st.current ELSE st.experiences

\* one pass of the loop body of parse_projects
projects_line(projects, ln) ==
    IF is_bullet(ln)
    THEN Append(projects, strip_bullet(ln))
    ELSE IF projects # <<>>
         THEN [projects EXCEPT ![Len(projects)] = @ \o S(" ") \o strip(ln)]
         ELSE projects

RECURSIVE parse_projects_from(_, _, _)
parse_projects_from(projects, lines, k) ==
    IF k > Len(lines) THEN projects
    ELSE parse_projects_from(projects_line(projects, lines[k]), lines, k + 1)

parse_projects(lines) == parse_projects_from(<<>>, lines, 1)

\* ^(?:\d+\.\s*|[\-\*\u2022]\s*)
PubLeadRe ==
    Cat(<<Bol, Alt(<<Cat(<<AtLeast(In(DIGIT), 1), In({"."}), AtLeast(In(SPACE), 0)>>),
                    Cat(<<In(BulletChars), AtLeast(In(SPACE), 0)>>)>>)>>)

\* ^\d+\.
PubNumberRe == Cat(<<Bol, AtLeast(In(DIGIT), 1), In({"."})>>)

\* one pass of the loop body of parse_publications
publications_line(pubs, ln) ==
    LET clean == strip(re_sub(PubLeadRe, <<>>, ln))
    IN  IF is_bullet(ln) \/ re_match(PubNumberRe, ln)
        THEN Append(pubs, clean)
        ELSE IF pubs # <<>>
             THEN [pubs EXCEPT ![Len(pubs)] = @ \o S(" ") \o strip(ln)]
             ELSE pubs

RECURSIVE parse_publications_from(_, _, _)
parse_publications_from(pubs, lines, k) ==
    IF k > Len(lines) THEN pubs
    ELSE parse_publications_from(publications_line(pubs, lines[k]), lines, k + 1)

parse_publications(lines) == parse_publications_from(<<>>, lines, 1)

(***************************************************************************)
(* src/parsers/resume_parser.py                                            *)
(***************************************************************************)
\* wrong -> right, in the order the dict literal lists them
OCR_CORRECTIONS == <<
    [wrong |-> "Gexanple",      right |-> S("example")],
    [wrong |-> "exanple",       right |-> S("example")],
    [wrong |-> "Gmail. com",    right |-> S("gmail.com")],
    [wrong |-> "linkedin. con", right |-> S("linkedin.com")],
    [wrong |-> "github. con",   right |-> S("github.com")],
    [wrong |-> "dot com",       right |-> S(".com")] >>

\* r'\b' + re.escape(wrong) + r'\b', under re.IGNORECASE
CorrectionRe(wrong) == Cat(<<WordB, LitI(wrong), WordB>>)

RECURSIVE apply_corrections(_, _)
\* the loop of clean_ocr_text over OCR_CORRECTIONS.items(), from the k-th on
apply_corrections(str, k) ==
    IF k > Len(OCR_CORRECTIONS) THEN str
    ELSE LET pattern == CorrectionRe(OCR_CORRECTIONS[k].wrong)
         IN  IF search_from(pattern, str, 0) # NoMatch
             THEN apply_corrections(re_sub(pattern, OCR_CORRECTIONS[k].right, str), k + 1)
             ELSE apply_corrections(str, k + 1)

SpacesRe     == AtLeast(In(SPACE), 1)
DoubleQuotes == In({LDQUO, RDQUO})
SingleQuotes == In({LSQUO, RSQUO})

clean_ocr_text(raw_text) ==
    LET t1 == re_sub(SpacesRe, S(" "), raw_text)
        t2 == re_sub(DoubleQuotes, S("\""), t1)
        t3 == re_sub(SingleQuotes, S("'"), t2)
    IN  apply_corrections(strip(t3), 1)

\* the fewest characters of embedded text that a page is trusted with
OcrMinLen == 30

\* the loop of extract_text_from_pdf over the pages from the k-th on; a page
\* is what the PDF library and the OCR engine give for it: [text, ocr]
RECURSIVE pdf_pages_from(_, _, _)
pdf_pages_from(acc, pages, k) ==
    IF k > Len(pages) THEN acc
    ELSE LET page_text == pages[k].text
             short     == strip(page_text) = <<>> \/ Len(strip(page_text)) < OcrMinLen
         IN  pdf_pages_from([text     |-> acc.text \o page_text,
                             ocr_text |-> IF short THEN acc.ocr_text \o pages[k].ocr
                                          ELSE acc.ocr_text],
                            pages, k + 1)

extract_text_from_pdf(pages) ==
    LET acc == pdf_pages_from([text |-> <<>>, ocr_text |-> <<>>], pages, 1)
    IN  clean_ocr_text(acc.text \o S("\n") \o acc.ocr_text)

RECURSIVE docx_paragraphs_from(_, _, _)
docx_paragraphs_from(acc, paragraphs, k) ==
    IF k > Len(paragraphs) THEN acc
    ELSE docx_paragraphs_from(acc \o paragraphs[k].text \o S("\n"), paragraphs, k + 1)

extract_text_from_docx(paragraphs) == docx_paragraphs_from(<<>>, paragraphs, 1)

ResumeEmailChars == In(WORD \cup {".", "-"})

\* [\w\.-]+@[\w\.-]+
ResumeEmailRe ==
    Cat(<<AtLeast(ResumeEmailChars, 1), In({"@"}), AtLeast(ResumeEmailChars, 1)>>)

resume_extract_email(str) == re_search(ResumeEmailRe, str)

\* \+?\d[\d -]{8,}\d
ResumePhoneRe ==
    Cat(<<Opt(In({"+"})), In(DIGIT), AtLeast(In(DIGIT \cup {" ", "-"}), 8), In(DIGIT)>>)

resume_extract_phone(str) == re_search(ResumePhoneRe, str)

\* skills_list of parse_resume
skills_list == <<S("Python"), S("Java"), S("Machine Learning"), S("Data Analysis"),
                 S("SQL"), S("Pandas"), S("NumPy"), S("Scikit-learn"), S("Flask")>>

RECURSIVE extract_skills_from(_, _, _)
extract_skills_from(str, skills, k) ==
    IF k > Len(skills) THEN <<>>
    ELSE (IF contains(lower(str), lower(skills[k])) THEN <<skills[k]>> ELSE <<>>)
         \o extract_skills_from(str, skills, k + 1)

extract_skills(str, skills) == extract_skills_from(str, skills, 1)

\* (Bachelor|Master|PhD|B\.Sc|M\.Sc|B\.Tech|M\.Tech).*?, under re.IGNORECASE
DegreeRe ==
    Cat(<<Alt(<<LitI("Bachelor"), LitI("Master"), LitI("PhD"), LitI("B.Sc"),
                LitI("M.Sc"), LitI("B.Tech"), LitI("M.Tech")>>),
          LazyLeast(NotIn({"\n"}), 0), In({","})>>)

RECURSIVE extract_education_from(_, _)
extract_education_from(ls, k) ==
    IF k > Len(ls) THEN <<>>
    ELSE (IF search_from(DegreeRe, ls[k], 0) # NoMatch THEN <<strip(ls[k])>> ELSE <<>>)
         \o extract_education_from(ls, k + 1)

extract_education(str) == extract_education_from(split(str, "\n"), 1)

\* ^[A-Za-z ]+:$
NextHeaderRe == Cat(<<Bol, AtLeast(In(ALPHA \cup {" "}), 1), In({":"}), Eol>>)

\* the loop of extract_section_block from the k-th line on; capture is the
\* flag and block the lines taken so far
RECURSIVE section_block_from(_, _, _, _, _)
section_block_from(block, capture, ls, title, k) ==
    IF k > Len(ls) THEN block
    ELSE IF contains(lower(ls[k]), lower(title))
         THEN section_block_from(block, TRUE, ls, title, k + 1)
         ELSE IF capture
              THEN IF strip(ls[k]) = <<>> \/ re_match(NextHeaderRe, strip(ls[k]))
                   THEN block
                   ELSE section_block_from(Append(block, strip(ls[k])), TRUE, ls, title, k + 1)
              ELSE section_block_from(block, FALSE, ls, title, k + 1)

extract_section_block(str, title) ==
    section_block_from(<<>>, FALSE, split(str, "\n"), title, 1)

extract_certifications(str) == extract_section_block(str, S("Certifications"))

\* the loop of extract_experience from the k-th line on
RECURSIVE experience_block_from(_, _, _, _)
experience_block_from(block, capture, ls, k) ==
    IF k > Len(ls) THEN block
    ELSE IF lower(strip(ls[k])) = S("experience:")
         THEN experience_block_from(block, TRUE, ls, k + 1)
         ELSE IF capture
              THEN IF strip(ls[k]) = <<>> \/ re_match(NextHeaderRe, strip(ls[k]))
                   THEN block
                   ELSE experience_block_from(Append(block, strip(ls[k])), TRUE, ls, k + 1)
              ELSE experience_block_from(block, FALSE, ls, k + 1)

extract_experience(str) == experience_block_from(<<>>, FALSE, split(str, "\n"), 1)

extract_projects(str) == extract_section_block(str, S("Projects"))

extract_publications(str) == extract_section_block(str, S("Publications"))

extract_references(str) ==
    IF contains(str, S("References")) THEN <<S("Available upon request")>> ELSE <<>>

\* the fields parse_resume extracts from the text and returns
resume_fields(str) ==
    [email          |-> resume_extract_email(str),
     phone          |-> resume_extract_phone(str),
     skills         |-> extract_skills(str, skills_list),
     education      |-> extract_education(str),
     certifications |-> extract_certifications(str),
     experience     |-> extract_experience(str),
     projects       |-> extract_projects(str),
     publications   |-> extract_publications(str),
     references     |-> extract_references(str)]

(***************************************************************************)
(* Inputs                                                                  *)
(***************************************************************************)
\* the sequences of at most n elements of pool
SeqsUpTo(pool, n) == UNION {[1..k -> pool] : k \in 0..n}

\* the longest input text, in lines
MaxLines == 4

\* the lines input texts are put together from
TextLines ==
    { S(" "),
      S("Skills"),
      S("Research Experience"),
      S("  - Built X, Y"),
      S("Email: a@b.co +1 555 123 4567") }

RawTexts == {join(ls, S("\n")) : ls \in SeqsUpTo(TextLines, MaxLines)}

\* the longest raw text given to the normaliser alone, in characters
MaxRawLen == 4

RawChars == {"a", " ", "\n", "\r", LDQUO, RSQUO}

RawStrings == SeqsUpTo(RawChars, MaxRawLen)

\* how often the normaliser is run over its own output
MaxPasses == 2

\* the longest section given to a post-processor alone, in lines
MaxSectionLines == 3

SectionLines ==
    { S("Dev"),
      S("- Built X"),
      S("  * Led Y"),
      <<BULLET>> \o S("Z"),
      S("1. Paper A"),
      S("in Journal"),
      S("Tools: Java/SQL and Python"),
      S("Python, , Java") }

SectionInputs == SeqsUpTo(SectionLines, MaxSectionLines)

\* the paths parse_resume is called with
FilePaths ==
    { S("cv.pdf"), S("cv.PDF"), S("cv.docx"), S("cv.Docx"), S("cv.txt"),
      S("cv.pdf.txt"), S("pdf"), S("cv") }

\* the most pages, or paragraphs, of a document
MaxParts == 2

\* what the PDF library gives as a page's embedded text and the OCR engine as
\* the text of its image
PdfPages ==
    { [text |-> S("Experience: Python, B.Sc, MIT\n"), ocr |-> <<>>],
      [text |-> <<>>,                                 ocr |-> S("ann@Gmail. com\n")],
      [text |-> S(" +1 555 123 4567 "),               ocr |-> S("References")] }

\* what the DOCX library gives as a paragraph's text
DocxParagraphs ==
    { [text |-> S("Experience:"),     ocr |-> <<>>],
      [text |-> S("Dev, M.Sc, SQL "), ocr |-> <<>>],
      [text |-> <<>>,                 ocr |-> <<>>] }

\* the files a path may name: a PDF, a DOCX, or one its library cannot read
Documents ==
    {[kind |-> "pdf", parts |-> ps] : ps \in SeqsUpTo(PdfPages, MaxParts)}
    \cup {[kind |-> "docx", parts |-> ps] : ps \in SeqsUpTo(DocxParagraphs, MaxParts)}
    \cup {[kind |-> "unreadable", parts |-> <<>>]}

(***************************************************************************)
(* State                                                                   *)
(***************************************************************************)
VARIABLES
    pc,         \* where the run stands
    raw,        \* the text given
    texts,      \* the results of clean_text so far, the latest last
    text_lines, \* extract_sections_by_headings: text.split('\n')
    line_no,    \* extract_sections_by_headings: the line the loop stands at
    seg,        \* extract_sections_by_headings: current and sections
    fields,     \* name, email and phone
    parsed,     \* the sections after their post-processors
    arg,        \* the lines given to a post-processor
    called,     \* the post-processor called
    ret,        \* what it returned
    file_path,  \* parse_resume: its argument
    document,   \* the file at file_path
    doc_text,   \* parse_resume: text
    result,     \* parse_resume: what it returned
    raised      \* parse_resume: the exception it raised

text_vars   == <<raw, texts, text_lines, line_no, seg, fields, parsed>>
post_vars   == <<arg, called, ret>>
resume_vars == <<file_path, document, doc_text, result, raised>>
vars        == <<pc, text_vars, post_vars, resume_vars>>

NoSeg    == [current |-> NoSection, sections |-> [sec \in SectionNames |-> <<>>]]
NoFields == [name |-> None, email |-> None, phone |-> None]
NoParsed == [education |-> <<>>, skills |-> <<>>, experience |-> <<>>,
             projects |-> <<>>, publications |-> <<>>]
NoResult == [email |-> None, phone |-> None, skills |-> <<>>, education |-> <<>>,
             certifications |-> <<>>, experience |-> <<>>, projects |-> <<>>,
             publications |-> <<>>, references |-> <<>>]
NoDocument == [kind |-> "none", parts |-> <<>>]

TextIdle ==
    /\ raw = <<>>
    /\ texts = <<>>
    /\ text_lines = <<>>
    /\ line_no = 0
    /\ seg = NoSeg
    /\ fields = NoFields
    /\ parsed = NoParsed

PostIdle ==
    /\ arg = <<>>
    /\ called = "none"
    /\ ret = <<>>

ResumeIdle ==
    /\ file_path = <<>>
    /\ document = NoDocument
    /\ doc_text = <<>>
    /\ result = NoResult
    /\ raised = "none"

\* the latest normalised text
latest == texts[Len(texts)]

(***************************************************************************)
(* The pipeline over one text: normalise, segment, extract, post-process   *)
(***************************************************************************)
Init ==
    /\ raw \in RawTexts
    /\ pc = "start"
    /\ texts = <<>>
    /\ text_lines = <<>>
    /\ line_no = 0
    /\ seg = NoSeg
    /\ fields = NoFields
    /\ parsed = NoParsed
    /\ PostIdle
    /\ ResumeIdle

CleanText ==
    /\ pc = "start"
    /\ texts' = <<clean_text(raw)>>
    /\ pc' = "cleaned"
    /\ UNCHANGED <<raw, text_lines, line_no, seg, fields, parsed, post_vars, resume_vars>>

\* extract_sections_by_headings up to its loop
SegmentStart ==
    /\ pc = "cleaned"
    /\ text_lines' = split(latest, "\n")
    /\ line_no' = 1
    /\ seg' = NoSeg
    /\ pc' = "segment"
    /\ UNCHANGED <<raw, texts, fields, parsed, post_vars, resume_vars>>

\* one pass of its loop
SegmentLine ==
    /\ pc = "segment"
    /\ line_no <= Len(text_lines)
    /\ seg' = segment_line(seg, text_lines[line_no])
    /\ line_no' = line_no + 1
    /\ UNCHANGED <<pc, raw, texts, text_lines, fields, parsed, post_vars, resume_vars>>

\* return sections
SegmentReturn ==
    /\ pc = "segment"
    /\ line_no > Len(text_lines)
    /\ pc' = "segmented"
    /\ UNCHANGED <<text_vars, post_vars, resume_vars>>

ExtractFields ==
    /\ pc = "segmented"
    /\ fields' = [name  |-> extract_name(latest),
                  email |-> extract_email(latest),
                  phone |-> extract_phone(latest)]
    /\ pc' = "extracted"
    /\ UNCHANGED <<raw, texts, text_lines, line_no, seg, parsed, post_vars, resume_vars>>

\* each section's lines go through the section's post-processor
PostProcess ==
    /\ pc = "extracted"
    /\ parsed' = [education    |-> parse_education(seg.sections["education"]),
                  skills       |-> parse_skills(seg.sections["skills"]),
                  experience   |-> parse_experience(seg.sections["experience"]),
                  projects     |-> parse_projects(seg.sections["projects"]),
                  publications |-> parse_publications(seg.sections["publications"])]
    /\ pc' = "done"
    /\ UNCHANGED <<raw, texts, text_lines, line_no, seg, fields, post_vars, resume_vars>>

Next ==
    \/ CleanText
    \/ SegmentStart
    \/ SegmentLine
    \/ SegmentReturn
    \/ ExtractFields
    \/ PostProcess

Spec == Init /\ [][Next]_vars

(***************************************************************************)
(* The normaliser run over its own output                                  *)
(***************************************************************************)
InitClean ==
    /\ raw \in RawStrings
    /\ pc = "clean"
    /\ texts = <<>>
    /\ text_lines = <<>>
    /\ line_no = 0
    /\ seg = NoSeg
    /\ fields = NoFields
    /\ parsed = NoParsed
    /\ PostIdle
    /\ ResumeIdle

CleanAgain ==
    /\ pc = "clean"
    /\ Len(texts) < MaxPasses
    /\ texts' = Append(texts, clean_text(IF texts = <<>> THEN raw ELSE latest))
    /\ UNCHANGED <<pc, raw, text_lines, line_no, seg, fields, parsed, post_vars, resume_vars>>

NextClean == CleanAgain

SpecClean == InitClean /\ [][NextClean]_vars

(***************************************************************************)
(* One post-processor called on one section                                *)
(***************************************************************************)
InitPost ==
    /\ arg \in SectionInputs
    /\ called = "none"
    /\ ret = <<>>
    /\ pc = "call"
    /\ TextIdle
    /\ ResumeIdle

ParseEducation ==
    /\ pc = "call"
    /\ called' = "parse_education"
    /\ ret' = parse_education(arg)
    /\ pc' = "returned"
    /\ UNCHANGED <<arg, text_vars, resume_vars>>

ParseSkills ==
    /\ pc = "call"
    /\ called' = "parse_skills"
    /\ ret' = parse_skills(arg)
    /\ pc' = "returned"
    /\ UNCHANGED <<arg, text_vars, resume_vars>>

ParseExperience ==
    /\ pc = "call"
    /\ called' = "parse_experience"
    /\ ret' = parse_experience(arg)
    /\ pc' = "returned"
    /\ UNCHANGED <<arg, text_vars, resume_vars>>

ParseProjects ==
    /\ pc = "call"
    /\ called' = "parse_projects"
    /\ ret' = parse_projects(arg)
    /\ pc' = "returned"
    /\ UNCHANGED <<arg, text_vars, resume_vars>>

ParsePublications ==
    /\ pc = "call"
    /\ called' = "parse_publications"
    /\ ret' = parse_publications(arg)
    /\ pc' = "returned"
    /\ UNCHANGED <<arg, text_vars, resume_vars>>

NextPost ==
    \/ ParseEducation
    \/ ParseSkills
    \/ ParseExperience
    \/ ParseProjects
    \/ ParsePublications

SpecPost == InitPost /\ [][NextPost]_vars

(***************************************************************************)
(* parse_resume called on one path                                         *)
(***************************************************************************)
InitResume ==
    /\ file_path \in FilePaths
    /\ document \in Documents
    /\ doc_text = <<>>
    /\ result = NoResult
    /\ raised = "none"
    /\ pc = "parse_resume"
    /\ TextIdle
    /\ PostIdle

\* the if / elif / else on the path's ending
Dispatch ==
    /\ pc = "parse_resume"
    /\ IF endswith(file_path, S(".pdf"))
       THEN pc' = "extract_text_from_pdf" /\ raised' = raised
       ELSE IF endswith(file_path, S(".docx"))
            THEN pc' = "extract_text_from_docx" /\ raised' = raised
            ELSE pc' = "raised" /\ raised' = "ValueError: Unsupported file type"
    /\ UNCHANGED <<file_path, document, doc_text, result, text_vars, post_vars>>

\* text = extract_text_from_pdf(file_path); the library's error goes to the
\* caller when the file is no PDF it can read
LoadPdf ==
    /\ pc = "extract_text_from_pdf"
    /\ IF document.kind = "pdf"
       THEN /\ doc_text' = extract_text_from_pdf(document.parts)
            /\ pc' = "extract"
            /\ raised' = raised
       ELSE /\ doc_text' = doc_text
            /\ pc' = "raised"
            /\ raised' = "loader error"
    /\ UNCHANGED <<file_path, document, result, text_vars, post_vars>>

\* text = extract_text_from_docx(file_path)
LoadDocx ==
    /\ pc = "extract_text_from_docx"
    /\ IF document.kind = "docx"
       THEN /\ doc_text' = extract_text_from_docx(document.parts)
            /\ pc' = "extract"
            /\ raised' = raised
       ELSE /\ doc_text' = doc_text
            /\ pc' = "raised"
            /\ raised' = "loader error"
    /\ UNCHANGED <<file_path, document, result, text_vars, post_vars>>

\* the nine fields are extracted and the result returned
ReturnResult ==
    /\ pc = "extract"
    /\ result' = resume_fields(doc_text)
    /\ pc' = "returned"
    /\ UNCHANGED <<file_path, document, doc_text, raised, text_vars, post_vars>>

NextResume ==
    \/ Dispatch
    \/ LoadPdf
    \/ LoadDocx
    \/ ReturnResult

SpecResume == InitResume /\ [][NextResume]_vars

(***************************************************************************)
(* What the claims speak of, stated apart from the code that computes it   *)
(***************************************************************************)
\* the enumeration order of the sections
SectionOrder ==
    <<"summary", "skills", "experience", "projects", "publications", "education">>

KeywordsOf(sec) ==
    LET e == SECTION_HEADERS[CHOOSE k \in 1..Len(SECTION_HEADERS) :
                                 SECTION_HEADERS[k].sec = sec]
    IN  {e.keys[j] : j \in 1..Len(e.keys)}

\* the sections of which ln holds a keyword, whatever the case
MatchSet(ln) ==
    LET low == lower(ln)
    IN  {sec \in SectionNames : \E kw \in KeywordsOf(sec) : contains(low, kw)}

IsHeadingLine(ln) == MatchSet(ln) # {}

IsBlankLine(ln) == \A k \in 1..Len(ln) : ln[k] \in SPACE

\* the first section in SectionOrder among ms
FirstOf(ms) ==
    SectionOrder[CHOOSE k \in 1..Len(SectionOrder) :
                    /\ SectionOrder[k] \in ms
                    /\ \A j \in 1..(k - 1) : SectionOrder[j] \notin ms]

\* the first section in SectionOrder that the heading line ln matches
FirstMatching(ln) == FirstOf(MatchSet(ln))

\* for each line of ls the sections it matches
Headings(ls) == SubSeq([k \in 1..Len(ls) |-> MatchSet(ls[k])], 1, Len(ls))

\* the heading line nearest above line k, or 0
HeadingAbove(hs, k) ==
    IF \A h \in 1..(k - 1) : hs[h] = {} THEN 0
    ELSE CHOOSE h \in 1..(k - 1) :
             hs[h] # {} /\ \A j \in (h + 1)..(k - 1) : hs[j] = {}

\* where line k of ls belongs: a section, "dropped", or "none" for a line
\* that is blank or a heading
OwnerOf(ls, hs, k) ==
    IF hs[k] # {} \/ IsBlankLine(ls[k]) THEN "none"
    ELSE IF HeadingAbove(hs, k) = 0 THEN "dropped"
    ELSE FirstOf(hs[HeadingAbove(hs, k)])

RECURSIVE LinesOwnedBy(_, _, _, _)
\* the lines among the first n of ls that belong to owner, in order
LinesOwnedBy(ls, hs, n, owner) ==
    IF n = 0 THEN <<>>
    ELSE LinesOwnedBy(ls, hs, n - 1, owner)
         \o (IF OwnerOf(ls, hs, n) = owner THEN <<ls[n]>> ELSE <<>>)

\* each section of secs holds the lines of ls that belong to it
SectionsHoldOwned(secs, ls, hs) ==
    \A sec \in SectionNames : secs[sec] = LinesOwnedBy(ls, hs, Len(ls), sec)

HasChar(str, cs) == \E k \in 1..Len(str) : str[k] \in cs

HasHeading(str) ==
    LET ls == split(str, "\n") IN \E k \in 1..Len(ls) : IsHeadingLine(ls[k])

\* every line is blank or names contact info, so none is a name
NoNameLine(str) ==
    LET ls == split(str, "\n")
    IN  \A k \in 1..Len(ls) :
            \/ IsBlankLine(ls[k])
            \/ contains(lower(ls[k]), S("email"))
            \/ contains(lower(ls[k]), S("phone"))
            \/ contains(lower(ls[k]), S("location"))

AllSectionsEmpty ==
    /\ DOMAIN seg.sections = {SectionOrder[k] : k \in 1..Len(SectionOrder)}
    /\ \A sec \in DOMAIN seg.sections : seg.sections[sec] = <<>>

AllParsedEmpty == \A f \in DOMAIN parsed : parsed[f] = <<>>

IsNormalised(str) ==
    /\ ~HasChar(str, {"\r", LDQUO, RDQUO, LSQUO, RSQUO})
    /\ str # <<>> => str[1] \notin SPACE /\ str[Len(str)] \notin SPACE

\* the first character of ln that is no whitespace is a bullet marker
StartsWithBullet(ln) ==
    \E k \in 1..Len(ln) : ln[k] \in BulletChars /\ \A j \in 1..(k - 1) : ln[j] \in SPACE

\* ln starts with digits and a dot
StartsWithOrdinal(ln) ==
    \E k \in 1..(Len(ln) - 1) : ln[k + 1] = "." /\ \A j \in 1..k : ln[j] \in DIGIT

\* the bullet line ln without its bullet marker and the whitespace after it,
\* trimmed
Unbulleted(ln) == strip(Tail(lstrip(ln)))

\* the ordinal line ln without its number and dot, trimmed
Unnumbered(ln) ==
    LET k == CHOOSE d \in 1..(Len(ln) - 1) : ln[d + 1] = "." /\ \A j \in 1..d : ln[j] \in DIGIT
    IN  strip(From(ln, k + 1))

RECURSIVE Ascending(_)
\* a set of numbers as a sequence, the least first
Ascending(ns) ==
    IF ns = {} THEN <<>>
    ELSE LET least == CHOOSE n \in ns : \A m \in ns : n <= m
         IN  <<least>> \o Ascending(ns \ {least})

\* the numbers of the title lines of ls, in order
TitleLines(ls) == Ascending({k \in 1..Len(ls) : ~StartsWithBullet(ls[k])})

\* the line after the bullets that follow title e of ts
BulletsEnd(ls, ts, e) == IF e < Len(ts) THEN ts[e + 1] ELSE Len(ls) + 1

RECURSIVE ProjectsOf(_, _)
\* the projects in the first n lines of ls: a bullet line opens an entry, any
\* other line is joined onto the last entry or dropped
ProjectsOf(ls, n) ==
    IF n = 0 THEN <<>>
    ELSE LET before == ProjectsOf(ls, n - 1)
         IN  IF StartsWithBullet(ls[n]) THEN Append(before, Unbulleted(ls[n]))
             ELSE IF before = <<>> THEN before
             ELSE [before EXCEPT ![Len(before)] = @ \o S(" ") \o strip(ls[n])]

RECURSIVE PublicationsOf(_, _)
\* the publications in the first n lines of ls: a bullet or ordinal line
\* opens an entry
PublicationsOf(ls, n) ==
    IF n = 0 THEN <<>>
    ELSE LET before == PublicationsOf(ls, n - 1)
         IN  IF StartsWithBullet(ls[n]) THEN Append(before, Unbulleted(ls[n]))
             ELSE IF StartsWithOrdinal(ls[n]) THEN Append(before, Unnumbered(ls[n]))
             ELSE IF before = <<>> THEN before
             ELSE [before EXCEPT ![Len(before)] = @ \o S(" ") \o strip(ls[n])]

RECURSIVE SkillPieces(_, _)
\* the trimmed pieces of the first n skills lines, in order
SkillPieces(ls, n) ==
    IF n = 0 THEN <<>>
    ELSE LET parts == skill_parts(ls[n])
         IN  SkillPieces(ls, n - 1)
             \o SubSeq([k \in 1..Len(parts) |-> strip(parts[k])], 1, Len(parts))

FirstIndex(seq, x) ==
    CHOOSE k \in 1..Len(seq) : seq[k] = x /\ \A j \in 1..(k - 1) : seq[j] # x

\* parse_resume takes the path, by its extension whatever the case
SupportedPath(path) ==
    endswith(lower(path), S(".pdf")) \/ endswith(lower(path), S(".docx"))

(***************************************************************************)
(* The claims                                                              *)
(***************************************************************************)
\* C1: when extract_sections_by_headings returns, each section holds exactly
\* the lines that are neither blank nor a heading and whose nearest heading
\* above opens that section, in input order; a line with no heading above it
\* is in no section, and no line is in two or twice in one.
C1_LinesInOneSection ==
    pc = "segmented" =>
        SectionsHoldOwned(seg.sections, text_lines, Headings(text_lines))

\* two sections hold lines, and a line before the first heading was dropped
C1_Witness ==
    /\ pc = "segmented"
    /\ \E s1, s2 \in SectionNames :
           s1 # s2 /\ seg.sections[s1] # <<>> /\ seg.sections[s2] # <<>>

\* C2: a pass of the segmenter's loop over a line that holds a keyword of
\* some section sets the cursor to the first such section in the order
\* summary, skills, experience, projects, publications, education and
\* appends nothing to any section.
C2_HeadingSwitches ==
    [][(pc = "segment" /\ line_no <= Len(text_lines)
            /\ IsHeadingLine(text_lines[line_no]))
        => (/\ seg'.current = FirstMatching(text_lines[line_no])
            /\ seg'.sections = seg.sections)]_vars

\* a non-blank line matching two sections was read while a section with
\* lines in it was current
C2_Witness ==
    /\ pc = "segment"
    /\ line_no >= 3
    /\ Cardinality(MatchSet(text_lines[line_no - 1])) >= 2
    /\ ~IsBlankLine(text_lines[line_no - 1])
    /\ seg.current = "experience"
    /\ seg.sections["skills"] # <<>>

\* C3: parse_experience returns one entry per line that is no bullet line, in
\* order, titled with that line trimmed and holding as details the bullet
\* lines up to the next title or the end; bullets before the first title are
\* in no entry and the last entry is in the result.
C3_OneEntryPerTitle ==
    called = "parse_experience" =>
        LET ts == TitleLines(arg)
        IN  /\ Len(ret) = Len(ts)
            /\ \A e \in 1..Len(ts) :
                   /\ ret[e].title = strip(arg[ts[e]])
                   /\ Len(ret[e].details) = BulletsEnd(arg, ts, e) - ts[e] - 1
                   /\ \A j \in 1..Len(ret[e].details) :
                          ret[e].details[j] = strip_bullet(arg[ts[e] + j])

\* a bullet came before the first title, or two titles with details between
C3_Witness ==
    /\ called = "parse_experience"
    /\ Len(ret) = 2
    /\ ret[1].details # <<>>

\* C4: every detail parse_experience stores is its bullet line without the
\* bullet marker and the whitespace after it, trimmed.
C4_DetailsUnbulleted ==
    called = "parse_experience" =>
        LET ts == TitleLines(arg)
        IN  \A e \in 1..Len(ret) :
                \A j \in 1..Len(ret[e].details) :
                    ret[e].details[j] = Unbulleted(arg[ts[e] + j])

\* C5: parse_publications opens an entry on each bullet or ordinal line, the
\* entry being the line without its bullet or number and dot, and joins
\* every other line onto the last entry with one space or drops it.
C5_PublicationEntries ==
    called = "parse_publications" => ret = PublicationsOf(arg, Len(arg))

\* C6: the list parse_skills returns holds no empty string and no string
\* twice, holds every non-empty piece of the section, and orders its items
\* by where each first occurs among the pieces.
C6_SkillsDeduplicated ==
    called = "parse_skills" =>
        LET ps == SkillPieces(arg, Len(arg))
        IN  /\ \A j \in 1..Len(ret) : ret[j] # <<>>
            /\ \A j, k \in 1..Len(ret) : j # k => ret[j] # ret[k]
            /\ {ret[j] : j \in 1..Len(ret)} = {ps[k] : k \in 1..Len(ps)} \ {<<>>}
            /\ \A j, k \in 1..Len(ret) :
                   j < k => FirstIndex(ps, ret[j]) < FirstIndex(ps, ret[k])

\* a skill named on two lines, and an empty piece
C6_Witness ==
    /\ called = "parse_skills"
    /\ Len(ret) >= 2
    /\ \E a, b \in 1..Len(arg) :
           /\ a < b
           /\ \E x \in 1..Len(SkillPieces(<<arg[a]>>, 1)) :
                  \E y \in 1..Len(SkillPieces(<<arg[b]>>, 1)) :
                      /\ SkillPieces(<<arg[a]>>, 1)[x] # <<>>
                      /\ SkillPieces(<<arg[a]>>, 1)[x] = SkillPieces(<<arg[b]>>, 1)[y]
    /\ \E k \in 1..Len(SkillPieces(arg, Len(arg))) : SkillPieces(arg, Len(arg))[k] = <<>>

\* C7: parse_resume raises the unsupported-format error exactly for the
\* paths whose extension, whatever its case, is neither .pdf nor .docx, and
\* then has loaded and extracted nothing.
C7_ExtensionAnyCase ==
    pc \in {"extract_text_from_pdf", "extract_text_from_docx", "extract",
            "returned", "raised"} =>
        /\ raised = "ValueError: Unsupported file type" <=> ~SupportedPath(file_path)
        /\ ~SupportedPath(file_path) => doc_text = <<>> /\ result = NoResult

\* C8 as stated: for the empty string and for any text with no heading, no
\* '@' and no digit, clean_text returns the empty string, every section is
\* empty, name, email and phone are None and every post-processor returns
\* an empty sequence.
C8_EmptyFromPlainText ==
    (pc = "done" /\ ~HasHeading(raw) /\ ~HasChar(raw, {"@"}) /\ ~HasChar(raw, DIGIT)) =>
        /\ latest = <<>>
        /\ AllSectionsEmpty
        /\ fields = NoFields
        /\ AllParsedEmpty

\* C8 amended: for the empty string all of the above holds; for any text
\* with no heading, no '@' and no digit the six sections are empty, email
\* and phone are None and every post-processor returns an empty sequence;
\* clean_text returns the empty string exactly for a text of whitespace
\* alone, and extract_name returns None exactly when every line is blank or
\* holds email, phone or location.
C8_TotalOverPlainText ==
    pc = "done" =>
        /\ raw = <<>> =>
               latest = <<>> /\ AllSectionsEmpty /\ fields = NoFields /\ AllParsedEmpty
        /\ (~HasHeading(raw) /\ ~HasChar(raw, {"@"}) /\ ~HasChar(raw, DIGIT)) =>
               /\ AllSectionsEmpty
               /\ fields.email = None
               /\ fields.phone = None
               /\ AllParsedEmpty
        /\ latest = <<>> <=> IsBlankLine(raw)
        /\ fields.name = None <=> NoNameLine(latest)

\* a text with no heading, no '@' and no digit that is not blank
C8_Witness ==
    /\ pc = "done"
    /\ ~HasHeading(raw) /\ ~HasChar(raw, {"@"}) /\ ~HasChar(raw, DIGIT)
    /\ latest # <<>>
    /\ fields.name # None

\* C9: every result of clean_text holds no carriage return and no
\* typographic quote and neither starts nor ends with whitespace, and
\* clean_text run again on a result returns that result.
C9_CleanTextIdempotent ==
    pc = "clean" =>
        \A k \in 1..Len(texts) : IsNormalised(texts[k]) /\ texts[k] = texts[1]

\* clean_text ran twice on a text its first run changed
C9_Witness ==
    /\ pc = "clean"
    /\ Len(texts) >= 2
    /\ texts[1] # raw
    /\ texts[1] # <<>>

\* C10: parse_projects opens an entry on each bullet line, the entry being
\* the line without its bullet, trimmed; joins every other line, trimmed,
\* onto the last entry with one space; and drops such lines before the first
\* bullet line.
C10_ProjectEntries ==
    called = "parse_projects" => ret = ProjectsOf(arg, Len(arg))

=============================================================================
